---- MODULE Spec2Model ----
(***************************************************************************)
(* A state-machine model of the ragapp retrieval-and-generation pipeline:  *)
(* RAGPipeline (pipeline.py) over VectorStore / DocumentRetriever          *)
(* (retrieval/), DocumentProcessor / DocumentLoader (ingestion/) and       *)
(* ResponseGenerator (generation/).                                        *)
(*                                                                         *)
(* Text is a sequence of one-character strings; a prompt, an answer and a  *)
(* streamed fragment are sequences of tokens.  Relevance scores are in     *)
(* tenths (7 stands for 0.7).                                              *)
(***************************************************************************)
EXTENDS Integers, Sequences, FiniteSets, TLC

VARIABLES
    vector_store,   \* VectorStore.vector_store: "None", "ready" (a Chroma handle) or,
                    \* inside a concurrent reset, "deleted" (a handle whose collection is gone)
    collection,     \* the persisted Chroma collection: the chunks it holds, oldest first
    threshold,      \* DocumentRetriever.similarity_threshold, in tenths
    provider,       \* ResponseGenerator.provider of the pipeline's generator
    last,           \* the outcome of the most recent completed pipeline/retriever call
    stream,         \* the generator object returned by the latest stream_query call
    threads         \* two calls running at once on the VectorStore: where each stands

vars == <<vector_store, collection, threshold, provider, last, stream, threads>>

----------------------------------------------------------------------------
(* Bounds of the model *)

\* the persisted collection holds at most this many chunks
MaxStore == 3

\* chunk_size / chunk_overlap the DocumentProcessor is built with
ChunkSize == 3

ChunkOverlap == 1

----------------------------------------------------------------------------
(* Generic helpers *)

Min(a, b) == IF a < b THEN a ELSE b

Range(s) == {s[i] : i \in 1..Len(s)}

RECURSIVE Concat(_)
\* "".join(fragments)
Concat(ss) == IF ss = <<>> THEN <<>> ELSE Head(ss) \o Concat(Tail(ss))

RECURSIVE IsSubsequence(_, _)
\* s can be obtained from t by deleting elements (relative order kept)
IsSubsequence(s, t) ==
    IF s = <<>> THEN TRUE
    ELSE IF t = <<>> THEN FALSE
    ELSE IF Head(s) = Head(t) THEN IsSubsequence(Tail(s), Tail(t))
    ELSE IsSubsequence(s, Tail(t))

----------------------------------------------------------------------------
(* The corpus: files a loader can be pointed at *)

Files == {"a.txt", "b.md", "e.txt", "u.txt", "x.csv"}

Suffix(f) ==
    CASE f = "a.txt" -> ".txt"
      [] f = "b.md"  -> ".md"
      [] f = "e.txt" -> ".txt"
      [] f = "u.txt" -> ".txt"
      [] f = "x.csv" -> ".csv"

FileContent(f) ==
    CASE f = "a.txt" -> <<"a", "b", " ", " ", "c", "d">>
      [] f = "b.md"  -> <<" ", "z">>
      [] f = "e.txt" -> <<" ", "\n">>
      [] f = "u.txt" -> <<"a", "b">>
      [] f = "x.csv" -> <<"a", ",", "b">>

\* a file whose loader raises when it reads it (corrupt, wrong encoding)
Unreadable(f) == f = "u.txt"

\* what a call may find under settings.documents_path
Directories == {{}, {"a.txt", "b.md", "e.txt", "x.csv"}, {"a.txt", "b.md", "u.txt"}}

Questions == {"ab?", "z?"}

\* the chat_history the pipeline's callers pass: <<>> stands for None
Histories == {<<>>}

Thresholds == {3, 7}

\* the error a failing backend call raises
BackendError == "BackendError"

----------------------------------------------------------------------------
(* ingestion/loaders.py *)

SUPPORTED_EXTENSIONS == <<".txt", ".md", ".pdf", ".docx">>

Document(f) == [source |-> f, content |-> FileContent(f)]

RECURSIVE SortedFiles(_)
\* the files of a set, in a fixed (directory listing) order
SortedFiles(fs) ==
    IF fs = {} THEN <<>>
    ELSE LET f == CHOOSE x \in fs : TRUE
         IN  <<f>> \o SortedFiles(fs \ {f})

\* the error of a loader that cannot read its file
LoadError == "LoadError"

\* load_document handing any suffix to a text loader
load_document_any_suffix(file_path) ==
    IF Unreadable(file_path)
    THEN [raised |-> TRUE, error |-> LoadError, documents |-> <<>>]
    ELSE [raised |-> FALSE, error |-> "", documents |-> <<Document(file_path)>>]

\* DocumentLoader.load_document: raises ValueError for an unsupported suffix and
\* re-raises the loader's error
load_document(file_path) ==
    IF Suffix(file_path) \notin Range(SUPPORTED_EXTENSIONS)
    THEN [raised |-> TRUE, error |-> "ValueError", documents |-> <<>>]
    ELSE IF Unreadable(file_path)
    THEN [raised |-> TRUE, error |-> LoadError, documents |-> <<>>]
    ELSE [raised |-> FALSE, error |-> "", documents |-> <<Document(file_path)>>]

RECURSIVE LoadExtensions(_, _)
\* the loop of load_directory: DirectoryLoader.load() raises at the first file it
\* cannot read, and the extension is then skipped with a warning
LoadExtensions(dir, exts) ==
    IF exts = <<>> THEN <<>>
    ELSE LET matching == {f \in dir : Suffix(f) = Head(exts)}
             docs == IF \E f \in matching : Unreadable(f) THEN <<>>
                     ELSE [i \in 1..Cardinality(matching) |->
                              Document(SortedFiles(matching)[i])]
         IN  docs \o LoadExtensions(dir, Tail(exts))

\* DocumentLoader.load_directory: one DirectoryLoader per supported extension
load_directory(dir) == LoadExtensions(dir, SUPPORTED_EXTENSIONS)

\* DocumentLoader.get_file_count
get_file_count(dir) == Cardinality({f \in dir : Suffix(f) \in Range(SUPPORTED_EXTENSIONS)})

----------------------------------------------------------------------------
(* ingestion/processor.py *)

IsSpace(c) == c \in {" ", "\n", "\t"}

RECURSIVE lstrip(_)
lstrip(t) == IF t # <<>> /\ IsSpace(Head(t)) THEN lstrip(Tail(t)) ELSE t

RECURSIVE rstrip(_)
rstrip(t) ==
    IF t # <<>> /\ IsSpace(t[Len(t)]) THEN rstrip(SubSeq(t, 1, Len(t) - 1)) ELSE t

\* str.strip()
strip(t) == rstrip(lstrip(t))

RECURSIVE CollapseSpaces(_)
\* every whitespace run of a left-stripped text becomes one " "
CollapseSpaces(t) ==
    IF t = <<>> THEN <<>>
    ELSE IF IsSpace(Head(t)) THEN <<" ">> \o CollapseSpaces(lstrip(t))
    ELSE <<Head(t)>> \o CollapseSpaces(Tail(t))

\* " ".join(page_content.split())
CleanText(t) == CollapseSpaces(strip(t))

RECURSIVE clean_documents_stops_at_empty(_)
\* _clean_documents leaving the loop at the first empty document
clean_documents_stops_at_empty(documents) ==
    IF documents = <<>> THEN <<>>
    ELSE LET doc == Head(documents)
             content == CleanText(doc.content)
         IN  IF strip(content) = <<>>
             THEN <<>>
             ELSE <<[doc EXCEPT !.content = content]>>
                  \o clean_documents_stops_at_empty(Tail(documents))

RECURSIVE clean_documents(_)
\* DocumentProcessor._clean_documents: documents empty after cleaning are skipped
clean_documents(documents) ==
    IF documents = <<>> THEN <<>>
    ELSE LET doc == Head(documents)
             content == CleanText(doc.content)
         IN  IF strip(content) = <<>>
             THEN clean_documents(Tail(documents))
             ELSE <<[doc EXCEPT !.content = content]>> \o clean_documents(Tail(documents))

\* the separators DocumentProcessor.__init__ gives the splitter, as texts
Separators == << <<"\n", "\n">>, <<"\n">>, <<".", " ">>, <<" ">>, <<>> >>

\* sep occurs in t at position i
OccursAt(t, sep, i) ==
    /\ i + Len(sep) - 1 <= Len(t)
    /\ SubSeq(t, i, i + Len(sep) - 1) = sep

\* re.search(separator, text)
Contains(t, sep) == \E i \in 1..Len(t) : OccursAt(t, sep, i)

RECURSIVE SplitScan(_, _, _)
\* re.split on sep with every separator kept at the start of the piece after it
SplitScan(t, sep, cur) ==
    IF t = <<>> THEN <<cur>>
    ELSE IF OccursAt(t, sep, 1)
         THEN <<cur>> \o SplitScan(SubSeq(t, Len(sep) + 1, Len(t)), sep, sep)
         ELSE SplitScan(Tail(t), sep, cur \o <<Head(t)>>)

\* _split_text_with_regex(text, separator, keep_separator=True): "" splits into
\* characters; empty pieces are dropped
split_text_with_regex(t, sep) ==
    IF sep = <<>> THEN [i \in 1..Len(t) |-> <<t[i]>>]
    ELSE SelectSeq(SplitScan(t, sep, <<>>), LAMBDA piece : piece # <<>>)

\* TextSplitter._join_docs with separator "": the stripped text, none if empty
join_docs(current_doc) ==
    LET text == strip(Concat(current_doc))
    IN  IF text = <<>> THEN <<>> ELSE <<text>>

RECURSIVE PopWhile(_, _, _, _)
\* the while loop of _merge_splits: pieces leave the front of current_doc until
\* what is kept fits the overlap and leaves room for the next piece
PopWhile(current_doc, len, size, overlap) ==
    LET total == Len(Concat(current_doc))
    IN  IF total > overlap \/ (total + len > size /\ total > 0)
        THEN PopWhile(Tail(current_doc), len, size, overlap)
        ELSE current_doc

RECURSIVE MergeLoop(_, _, _, _)
\* the for loop of _merge_splits and the final join
MergeLoop(splits, current_doc, size, overlap) ==
    IF splits = <<>> THEN join_docs(current_doc)
    ELSE LET d == Head(splits)
             total == Len(Concat(current_doc))
         IN  IF total + Len(d) > size /\ current_doc # <<>>
             THEN join_docs(current_doc)
                  \o MergeLoop(Tail(splits),
                               PopWhile(current_doc, Len(d), size, overlap) \o <<d>>,
                               size, overlap)
             ELSE MergeLoop(Tail(splits), current_doc \o <<d>>, size, overlap)

\* TextSplitter._merge_splits(splits, "")
merge_splits(splits, size, overlap) == MergeLoop(splits, <<>>, size, overlap)

\* the first separator that is "" or occurs in the text
RECURSIVE SeparatorIndex(_, _, _)
SeparatorIndex(t, separators, i) ==
    IF i >= Len(separators) THEN Len(separators)
    ELSE IF separators[i] = <<>> \/ Contains(t, separators[i]) THEN i
    ELSE SeparatorIndex(t, separators, i + 1)

RECURSIVE split_text_rec(_, _, _, _)
RECURSIVE SplitLoop(_, _, _, _, _)
\* the for loop of _split_text: short pieces collect in good_splits and are
\* merged, a piece of chunk_size or more is split by the separators that remain
SplitLoop(splits, good_splits, new_separators, size, overlap) ==
    LET merged == IF good_splits # <<>> THEN merge_splits(good_splits, size, overlap)
                  ELSE <<>>
    IN  IF splits = <<>> THEN merged
        ELSE LET piece == Head(splits)
             IN  IF Len(piece) < size
                 THEN SplitLoop(Tail(splits), good_splits \o <<piece>>, new_separators,
                                size, overlap)
                 ELSE merged
                      \o (IF new_separators = <<>> THEN <<piece>>
                          ELSE split_text_rec(piece, new_separators, size, overlap))
                      \o SplitLoop(Tail(splits), <<>>, new_separators, size, overlap)

\* RecursiveCharacterTextSplitter._split_text(text, separators)
split_text_rec(t, separators, size, overlap) ==
    LET i == SeparatorIndex(t, separators, 1)
        separator == separators[i]
        new_separators == IF separator = <<>> THEN <<>>
                          ELSE SubSeq(separators, i + 1, Len(separators))
    IN  SplitLoop(split_text_with_regex(t, separator), <<>>, new_separators, size, overlap)

\* split_text of a splitter built without the final "" separator
split_text_no_character_split(t, size, overlap) ==
    split_text_rec(t, SubSeq(Separators, 1, Len(Separators) - 1), size, overlap)

\* RecursiveCharacterTextSplitter.split_text
split_text(t, size, overlap) == split_text_rec(t, Separators, size, overlap)

RECURSIVE split_documents(_, _, _)
\* text_splitter.split_documents: every chunk keeps its document's metadata
split_documents(documents, size, overlap) ==
    IF documents = <<>> THEN <<>>
    ELSE LET doc == Head(documents)
             parts == split_text(doc.content, size, overlap)
         IN  [i \in 1..Len(parts) |-> [source |-> doc.source, content |-> parts[i]]]
             \o split_documents(Tail(documents), size, overlap)

\* _add_chunk_metadata numbering the chunks of each source from 0
add_chunk_metadata_per_source(documents) ==
    [i \in 1..Len(documents) |->
        [source     |-> documents[i].source,
         content    |-> documents[i].content,
         chunk_id   |-> Cardinality({j \in 1..(i - 1) :
                                        documents[j].source = documents[i].source}),
         chunk_size |-> Len(documents[i].content)]]

\* DocumentProcessor._add_chunk_metadata: chunk_id = position, chunk_size = len
add_chunk_metadata(documents) ==
    [i \in 1..Len(documents) |->
        [source     |-> documents[i].source,
         content    |-> documents[i].content,
         chunk_id   |-> i - 1,
         chunk_size |-> Len(documents[i].content)]]

\* DocumentProcessor.process_documents of a processor built with
\* (chunk_size, chunk_overlap)
process_documents(documents, chunk_size, chunk_overlap) ==
    IF documents = <<>> THEN <<>>
    ELSE add_chunk_metadata(
             split_documents(clean_documents(documents), chunk_size, chunk_overlap))

----------------------------------------------------------------------------
(* retrieval/vector_store.py.  A store value S is [vs, coll]: the handle     *)
(* self.vector_store and the persisted collection behind it.                 *)

\* add_documents' default batch_size
DefaultBatchSize == 100

\* similarity_search's score_threshold=None
NoThreshold == -1

\* the characters an embedding of the question looks for
QueryTerms(q) == IF q = "ab?" THEN {"a", "b"} ELSE {"z"}

\* relevance of a chunk to a question as the embedding model scores it, in tenths
Score(q, doc) ==
    (10 * Cardinality(QueryTerms(q) \cap Range(doc.content))) \div Cardinality(QueryTerms(q))

RECURSIVE Ranked(_, _)
\* the chunks of a collection by descending relevance (ties: oldest first)
Ranked(coll, q) ==
    IF coll = <<>> THEN <<>>
    ELSE LET best == CHOOSE i \in 1..Len(coll) :
                        /\ \A j \in 1..Len(coll) : Score(q, coll[j]) <= Score(q, coll[i])
                        /\ \A j \in 1..(i - 1) : Score(q, coll[j]) < Score(q, coll[i])
             rest == [j \in 1..(Len(coll) - 1) |-> IF j < best THEN coll[j] ELSE coll[j + 1]]
         IN  <<[doc |-> coll[best], score |-> Score(q, coll[best])]>> \o Ranked(rest, q)

\* Chroma.similarity_search_with_relevance_scores(query, k): the k best, scored
similarity_search_with_relevance_scores(coll, q, k) ==
    SubSeq(Ranked(coll, q), 1, Min(k, Len(coll)))

Docs(results) == [i \in 1..Len(results) |-> results[i].doc]

\* VectorStore.create_or_load: Chroma(...) opens the persisted collection or creates it
create_or_load(S) == [S EXCEPT !.vs = "ready"]

\* VectorStore.delete_collection: only through an open handle
delete_collection(S) ==
    IF S.vs # "None" THEN [vs |-> "None", coll |-> <<>>] ELSE S

\* VectorStore.reset
reset(S) == create_or_load(delete_collection(S))

\* VectorStore.get_document_count
get_document_count(S) == IF S.vs = "None" THEN 0 ELSE Len(S.coll)

NumBatches(n, batch_size) == (n + batch_size - 1) \div batch_size

RECURSIVE WriteLoop(_, _, _, _, _)
\* the loop of add_documents from offset i: the batches handed to the backend so
\* far are `calls`; the loop ends after the documents or at the rejected write
WriteLoop(documents, batch_size, fail_batch, i, calls) ==
    IF i >= Len(documents) THEN calls
    ELSE LET batch == SubSeq(documents, i + 1, Min(i + batch_size, Len(documents)))
         IN  IF Len(calls) + 1 = fail_batch
             THEN Append(calls, batch)
             ELSE WriteLoop(documents, batch_size, fail_batch, i + batch_size,
                            Append(calls, batch))

\* add_documents handing every document to the backend in one write
add_documents_no_batching(S, documents, batch_size, fail_batch) ==
    IF documents = <<>>
    THEN [store |-> S, raised |-> FALSE, error |-> "", write_calls |-> 0,
          batches |-> <<>>]
    ELSE LET S1 == IF S.vs = "None" THEN create_or_load(S) ELSE S
             calls == <<documents>>
             failed == fail_batch \in 1..Len(calls)
             stored == IF failed THEN SubSeq(calls, 1, Len(calls) - 1) ELSE calls
         IN  [store       |-> [S1 EXCEPT !.coll = S1.coll \o Concat(stored)],
              raised      |-> failed,
              error       |-> IF failed THEN BackendError ELSE "",
              write_calls |-> Len(calls),
              batches     |-> calls]

\* add_documents undoing the batches it wrote when a later write is rejected
add_documents_rolls_back(S, documents, batch_size, fail_batch) ==
    IF documents = <<>>
    THEN [store |-> S, raised |-> FALSE, error |-> "", write_calls |-> 0,
          batches |-> <<>>]
    ELSE LET S1 == IF S.vs = "None" THEN create_or_load(S) ELSE S
             calls == WriteLoop(documents, batch_size, fail_batch, 0, <<>>)
             failed == fail_batch \in 1..Len(calls)
             stored == IF failed THEN <<>> ELSE calls
         IN  [store       |-> [S1 EXCEPT !.coll = S1.coll \o Concat(stored)],
              raised      |-> failed,
              error       |-> IF failed THEN BackendError ELSE "",
              write_calls |-> Len(calls),
              batches     |-> calls]

\* VectorStore.add_documents; fail_batch is the batch whose write the backend
\* rejects (0: none).  Returns the store, whether it raised, the writes made and
\* the batches handed to the backend, in call order.
add_documents(S, documents, batch_size, fail_batch) ==
    IF documents = <<>>
    THEN [store |-> S, raised |-> FALSE, error |-> "", write_calls |-> 0,
          batches |-> <<>>]
    ELSE LET S1 == IF S.vs = "None" THEN create_or_load(S) ELSE S
             calls == WriteLoop(documents, batch_size, fail_batch, 0, <<>>)
             failed == fail_batch \in 1..Len(calls)
             stored == IF failed THEN SubSeq(calls, 1, Len(calls) - 1) ELSE calls
         IN  [store       |-> [S1 EXCEPT !.coll = S1.coll \o Concat(stored)],
              raised      |-> failed,
              error       |-> IF failed THEN BackendError ELSE "",
              write_calls |-> Len(calls),
              batches     |-> calls]

\* similarity_search with the threshold ignored
similarity_search_unfiltered(S, query, k, score_threshold, search_fails) ==
    LET S1 == IF S.vs = "None" THEN create_or_load(S) ELSE S
        results == similarity_search_with_relevance_scores(S1.coll, query, k)
    IN  IF search_fails
        THEN [store |-> S1, raised |-> TRUE, error |-> BackendError,
              provided |-> <<>>, documents |-> <<>>, search_calls |-> 1]
        ELSE [store |-> S1, raised |-> FALSE, error |-> "",
              provided |-> results, documents |-> Docs(results), search_calls |-> 1]

\* similarity_search with the threshold read as a maximum distance
similarity_search_below(S, query, k, score_threshold, search_fails) ==
    LET S1 == IF S.vs = "None" THEN create_or_load(S) ELSE S
        results == similarity_search_with_relevance_scores(S1.coll, query, k)
    IN  IF search_fails
        THEN [store |-> S1, raised |-> TRUE, error |-> BackendError,
              provided |-> <<>>, documents |-> <<>>, search_calls |-> 1]
        ELSE [store |-> S1, raised |-> FALSE, error |-> "",
              provided |-> results,
              documents |-> Docs(SelectSeq(results, LAMBDA r : r.score <= score_threshold)),
              search_calls |-> 1]

\* VectorStore.similarity_search; search_fails: the backend search raises
similarity_search(S, query, k, score_threshold, search_fails) ==
    LET S1 == IF S.vs = "None" THEN create_or_load(S) ELSE S
        results == similarity_search_with_relevance_scores(S1.coll, query, k)
    IN  IF search_fails
        THEN [store |-> S1, raised |-> TRUE, error |-> BackendError,
              provided |-> <<>>, documents |-> <<>>, search_calls |-> 1]
        ELSE IF score_threshold # NoThreshold
        THEN [store |-> S1, raised |-> FALSE, error |-> "",
              provided |-> results,
              documents |-> Docs(SelectSeq(results, LAMBDA r : r.score >= score_threshold)),
              search_calls |-> 1]
        ELSE [store |-> S1, raised |-> FALSE, error |-> "",
              provided |-> results, documents |-> Docs(results), search_calls |-> 1]

----------------------------------------------------------------------------
(* retrieval/retriever.py *)

\* Settings.max_results / DocumentRetriever.max_results default
max_results == 5

\* k=None of retrieve / retrieve_with_scores
NoK == -1

\* `k or self.max_results`: None and 0 are both falsy
NumResults(k) == IF k = NoK \/ k = 0 THEN max_results ELSE k

\* DocumentRetriever.retrieve: `k or self.max_results`
retrieve(S, query, k, similarity_threshold, search_fails) ==
    LET num_results == NumResults(k)
    IN  similarity_search(S, query, num_results, similarity_threshold, search_fails)

\* DocumentRetriever.retrieve_with_scores: (document, score) pairs
retrieve_with_scores(S, query, k, similarity_threshold, search_fails) ==
    LET num_results == NumResults(k)
        S1 == IF S.vs = "None" THEN create_or_load(S) ELSE S
        results == similarity_search_with_relevance_scores(S1.coll, query, num_results)
    IN  IF search_fails
        THEN [store |-> S1, raised |-> TRUE, error |-> BackendError,
              provided |-> <<>>, pairs |-> <<>>, search_calls |-> 1]
        ELSE [store |-> S1, raised |-> FALSE, error |-> "",
              provided |-> results,
              pairs |-> SelectSeq(results, LAMBDA r : r.score >= similarity_threshold),
              search_calls |-> 1]

RECURSIVE JoinBlocks(_)
\* "\n\n".join(context_parts)
JoinBlocks(parts) ==
    IF parts = <<>> THEN <<>>
    ELSE IF Len(parts) = 1 THEN Head(parts)
    ELSE Head(parts) \o <<"\n\n">> \o JoinBlocks(Tail(parts))

\* DocumentRetriever.format_context
format_context(documents) ==
    IF documents = <<>> THEN <<"No relevant documents found.">>
    ELSE JoinBlocks([idx \in 1..Len(documents) |->
             <<"[Document ", ToString(idx), "] Source: ", documents[idx].source, "\n">>
             \o strip(documents[idx].content)])

----------------------------------------------------------------------------
(* generation/prompts.py and generation/generator.py *)

RAG_SYSTEM_PROMPT == "You are a helpful AI assistant ... never make up information."

\* RAG_PROMPT_TEMPLATE rendered with a context and a question
RAG_PROMPT_TEMPLATE(context, question) ==
    <<"Context information:\n">> \o context
    \o <<"\n\nQuestion: ", question, "\n\nBased on the context above, ...">>

\* RAG_CHAT_PROMPT.format_messages: [system, user]
RAG_CHAT_PROMPT(context, question) ==
    <<"system:", RAG_SYSTEM_PROMPT, "user:">> \o RAG_PROMPT_TEMPLATE(context, question)

\* CONVERSATIONAL_RAG_PROMPT.format_messages: [system, *chat_history, user]
CONVERSATIONAL_RAG_PROMPT(context, question, chat_history) ==
    <<"system:", RAG_SYSTEM_PROMPT>> \o chat_history
    \o <<"user:">> \o RAG_PROMPT_TEMPLATE(context, question)

\* what generate passes to llm.invoke: the chat messages of the hosted branch
\* (with the history when there is one), the inline text of the local branch
generate_prompt(prov, question, context, chat_history) ==
    IF prov = "openai"
    THEN IF chat_history # <<>>
         THEN CONVERSATIONAL_RAG_PROMPT(context, question, chat_history)
         ELSE RAG_CHAT_PROMPT(context, question)
    ELSE <<"Context information:\n">> \o context
         \o <<"\n\nQuestion: ", question, "\n\nBased on the context above, ...">>

\* stream_generate rendering the hosted prompt without the history
stream_prompt_no_history(prov, question, context, chat_history) ==
    IF prov = "openai"
    THEN RAG_CHAT_PROMPT(context, question)
    ELSE <<"Context information:\n">> \o context
         \o <<"\n\nQuestion: ", question, "\n\nBased on the context above, ...">>

\* what stream_generate passes to llm.stream
stream_prompt(prov, question, context, chat_history) ==
    IF prov = "openai"
    THEN IF chat_history # <<>>
         THEN CONVERSATIONAL_RAG_PROMPT(context, question, chat_history)
         ELSE RAG_CHAT_PROMPT(context, question)
    ELSE <<"Context information:\n">> \o context
         \o <<"\n\nQuestion: ", question, "\n\nBased on the context above, ...">>

\* the backend model: a deterministic function of the prompt it receives
LLM(prompt) == <<"Answer to: ">> \o prompt

\* llm.stream: the text llm.invoke returns, delivered as a first token and the
\* rest; the hosted backend opens with an empty delta
LLMStream(prov, prompt) ==
    LET text == LLM(prompt)
        frags == <<<<Head(text)>>, Tail(text)>>
    IN  IF prov = "openai" THEN <<<<>>>> \o frags ELSE frags

\* generate with one retry of a failed invocation
generate_retries(prov, question, context, chat_history, llm_fails) ==
    LET prompt == generate_prompt(prov, question, context, chat_history)
    IN  [raised |-> FALSE, error |-> "", answer |-> LLM(prompt),
         llm_calls |-> IF llm_fails THEN <<prov, prov>> ELSE <<prov>>, prompt |-> prompt]

\* ResponseGenerator.generate; llm_fails: the backend invocation raises
generate(prov, question, context, chat_history, llm_fails) ==
    LET prompt == generate_prompt(prov, question, context, chat_history)
    IN  IF llm_fails
        THEN [raised |-> TRUE, error |-> BackendError, answer |-> <<>>,
              llm_calls |-> <<prov>>, prompt |-> prompt]
        ELSE [raised |-> FALSE, error |-> "", answer |-> LLM(prompt),
              llm_calls |-> <<prov>>, prompt |-> prompt]

\* _format_documents with nothing for an empty list
format_documents_no_sentinel(documents) ==
    IF documents = <<>> THEN <<>>
    ELSE JoinBlocks([idx \in 1..Len(documents) |->
             <<"--- Document ", ToString(idx), " (Source: ", documents[idx].source, ") ---\n">>
             \o strip(documents[idx].content)])

\* ResponseGenerator._format_documents
format_documents(documents) ==
    IF documents = <<>> THEN <<"No relevant information found in the knowledge base.">>
    ELSE JoinBlocks([idx \in 1..Len(documents) |->
             <<"--- Document ", ToString(idx), " (Source: ", documents[idx].source, ") ---\n">>
             \o strip(documents[idx].content)])

\* ResponseGenerator.generate_from_documents
generate_from_documents(prov, question, documents, chat_history, llm_fails) ==
    generate(prov, question, format_documents(documents), chat_history, llm_fails)

\* ResponseGenerator.stream_generate run to the end of the backend stream:
\* the prompt it sends, the fragments the backend emits and the ones it yields
\* (the hosted branch skips a chunk whose content is empty)
stream_generate(prov, question, context, chat_history) ==
    LET prompt == stream_prompt(prov, question, context, chat_history)
        emitted == LLMStream(prov, prompt)
    IN  [prompt |-> prompt, emitted |-> emitted,
         fragments |-> IF prov = "openai" THEN SelectSeq(emitted, LAMBDA f : f # <<>>)
                       ELSE emitted]

----------------------------------------------------------------------------
(* pipeline.py *)

\* ResponseGenerator.__init__'s default provider, which RAGPipeline.__init__ keeps
DefaultProvider == "ollama"

NoInfoMessage == <<"I couldn't find any relevant information to answer your question.">>

\* the backend failures a call meets: the search raises, the model invocation
\* raises, the write of batch fail_batch raises (0: none)
NoEnv == [search_fails |-> FALSE, llm_fails |-> FALSE, fail_batch |-> 0]

\* query without the check for an empty retrieval
query_always_generates(S, prov, question, chat_history, return_sources, thr, env) ==
    LET r == retrieve(S, question, NoK, thr, env.search_fails)
        g == generate_from_documents(prov, question, r.documents, chat_history, env.llm_fails)
    IN  IF r.raised
        THEN [store |-> r.store, outcome |-> "raise", error |-> r.error, answer |-> <<>>,
              sources |-> <<>>, retrieved |-> <<>>, provided |-> <<>>,
              llm_calls |-> <<>>, search_calls |-> r.search_calls]
        ELSE IF g.raised
        THEN [store |-> r.store, outcome |-> "raise", error |-> g.error, answer |-> <<>>,
              sources |-> <<>>, retrieved |-> r.documents, provided |-> r.provided,
              llm_calls |-> g.llm_calls, search_calls |-> r.search_calls]
        ELSE [store |-> r.store, outcome |-> "ok", error |-> "", answer |-> g.answer,
              sources |-> IF return_sources THEN r.documents ELSE <<>>,
              retrieved |-> r.documents, provided |-> r.provided,
              llm_calls |-> g.llm_calls, search_calls |-> r.search_calls]

\* RAGPipeline.query
query(S, prov, question, chat_history, return_sources, thr, env) ==
    LET r == retrieve(S, question, NoK, thr, env.search_fails)
        g == generate_from_documents(prov, question, r.documents, chat_history, env.llm_fails)
    IN  IF r.raised
        THEN [store |-> r.store, outcome |-> "raise", error |-> r.error, answer |-> <<>>,
              sources |-> <<>>, retrieved |-> <<>>, provided |-> <<>>,
              llm_calls |-> <<>>, search_calls |-> r.search_calls]
        ELSE IF r.documents = <<>>
        THEN [store |-> r.store, outcome |-> "ok", error |-> "", answer |-> NoInfoMessage,
              sources |-> <<>>, retrieved |-> <<>>, provided |-> r.provided,
              llm_calls |-> <<>>, search_calls |-> r.search_calls]
        ELSE IF g.raised
        THEN [store |-> r.store, outcome |-> "raise", error |-> g.error, answer |-> <<>>,
              sources |-> <<>>, retrieved |-> r.documents, provided |-> r.provided,
              llm_calls |-> g.llm_calls, search_calls |-> r.search_calls]
        ELSE [store |-> r.store, outcome |-> "ok", error |-> "", answer |-> g.answer,
              sources |-> IF return_sources THEN r.documents ELSE <<>>,
              retrieved |-> r.documents, provided |-> r.provided,
              llm_calls |-> g.llm_calls, search_calls |-> r.search_calls]

\* ingest_documents returning the number of documents loaded, not of chunks written
ingest_documents_counts_loaded(S, dir, file_path, do_reset, env) ==
    LET S1 == IF do_reset THEN reset(S) ELSE S
        loaded == IF file_path # "None" THEN load_document(file_path)
                  ELSE [raised |-> FALSE, error |-> "", documents |-> load_directory(dir)]
        processed_docs == process_documents(loaded.documents, ChunkSize, ChunkOverlap)
        a == add_documents(S1, processed_docs, DefaultBatchSize, env.fail_batch)
    IN  IF loaded.raised
        THEN [store |-> S1, outcome |-> "raise", error |-> loaded.error, count |-> -1,
              n_loaded |-> 0, write_calls |-> 0]
        ELSE IF loaded.documents = <<>>
        THEN [store |-> S1, outcome |-> "ok", error |-> "", count |-> 0,
              n_loaded |-> 0, write_calls |-> 0]
        ELSE IF a.raised
        THEN [store |-> a.store, outcome |-> "raise", error |-> a.error, count |-> -1,
              n_loaded |-> Len(loaded.documents), write_calls |-> a.write_calls]
        ELSE [store |-> a.store, outcome |-> "ok", error |-> "",
              count |-> Len(loaded.documents),
              n_loaded |-> Len(loaded.documents), write_calls |-> a.write_calls]

\* ingest_documents numbering its chunks on from the chunks the collection holds
ingest_documents_continues_ids(S, dir, file_path, do_reset, env) ==
    LET S1 == IF do_reset THEN reset(S) ELSE S
        loaded == IF file_path # "None" THEN load_document(file_path)
                  ELSE [raised |-> FALSE, error |-> "", documents |-> load_directory(dir)]
        chunks == process_documents(loaded.documents, ChunkSize, ChunkOverlap)
        processed_docs == [i \in 1..Len(chunks) |->
                              [chunks[i] EXCEPT !.chunk_id = @ + Len(S1.coll)]]
        a == add_documents(S1, processed_docs, DefaultBatchSize, env.fail_batch)
    IN  IF loaded.raised
        THEN [store |-> S1, outcome |-> "raise", error |-> loaded.error, count |-> -1,
              n_loaded |-> 0, write_calls |-> 0]
        ELSE IF loaded.documents = <<>>
        THEN [store |-> S1, outcome |-> "ok", error |-> "", count |-> 0,
              n_loaded |-> 0, write_calls |-> 0]
        ELSE IF a.raised
        THEN [store |-> a.store, outcome |-> "raise", error |-> a.error, count |-> -1,
              n_loaded |-> Len(loaded.documents), write_calls |-> a.write_calls]
        ELSE [store |-> a.store, outcome |-> "ok", error |-> "", count |-> Len(processed_docs),
              n_loaded |-> Len(loaded.documents), write_calls |-> a.write_calls]

\* RAGPipeline.ingest_documents; count -1: no count is returned
ingest_documents(S, dir, file_path, do_reset, env) ==
    LET S1 == IF do_reset THEN reset(S) ELSE S
        loaded == IF file_path # "None" THEN load_document(file_path)
                  ELSE [raised |-> FALSE, error |-> "", documents |-> load_directory(dir)]
        processed_docs == process_documents(loaded.documents, ChunkSize, ChunkOverlap)
        a == add_documents(S1, processed_docs, DefaultBatchSize, env.fail_batch)
    IN  IF loaded.raised
        THEN [store |-> S1, outcome |-> "raise", error |-> loaded.error, count |-> -1,
              n_loaded |-> 0, write_calls |-> 0]
        ELSE IF loaded.documents = <<>>
        THEN [store |-> S1, outcome |-> "ok", error |-> "", count |-> 0,
              n_loaded |-> 0, write_calls |-> 0]
        ELSE IF a.raised
        THEN [store |-> a.store, outcome |-> "raise", error |-> a.error, count |-> -1,
              n_loaded |-> Len(loaded.documents), write_calls |-> a.write_calls]
        ELSE [store |-> a.store, outcome |-> "ok", error |-> "", count |-> Len(processed_docs),
              n_loaded |-> Len(loaded.documents), write_calls |-> a.write_calls]

\* RAGPipeline.get_stats
get_stats(S, dir) ==
    [documents_in_store |-> get_document_count(S), source_files |-> get_file_count(dir)]

\* RAGPipeline.reset_vector_store
reset_vector_store(S) == reset(S)

\* stream_query invoking the backend whatever the retrieval returned
stream_query_always_generates(S, prov, question, chat_history, thr, env) ==
    LET r == retrieve(S, question, NoK, thr, env.search_fails)
        context == format_context(r.documents)
        frags == stream_generate(prov, question, context, chat_history).fragments
        gen == [pos |-> "streaming", question |-> question, history |-> chat_history,
                documents |-> r.documents, pending |-> <<>>, yielded |-> <<>>,
                error |-> "", llm_calls |-> <<>>, search_calls |-> r.search_calls,
                met |-> "none"]
    IN  IF r.raised
        THEN [store |-> r.store, gen |-> [gen EXCEPT !.pos = "raised", !.error = r.error]]
        ELSE IF env.llm_fails
        THEN [store |-> r.store,
              gen |-> [gen EXCEPT !.pos = "raised", !.error = BackendError,
                                  !.llm_calls = <<prov>>]]
        ELSE IF frags = <<>>
        THEN [store |-> r.store, gen |-> [gen EXCEPT !.pos = "done", !.llm_calls = <<prov>>]]
        ELSE [store |-> r.store,
              gen |-> [gen EXCEPT !.yielded = <<Head(frags)>>, !.pending = Tail(frags),
                                  !.llm_calls = <<prov>>]]

\* RAGPipeline.stream_query, from the first next() to its first yield.
\* pos "streaming": suspended at a yield; "done": returned; "raised": ended by an error
stream_query(S, prov, question, chat_history, thr, env) ==
    LET r == retrieve(S, question, NoK, thr, env.search_fails)
        context == format_context(r.documents)
        frags == stream_generate(prov, question, context, chat_history).fragments
        gen == [pos |-> "streaming", question |-> question, history |-> chat_history,
                documents |-> r.documents, pending |-> <<>>, yielded |-> <<>>,
                error |-> "", llm_calls |-> <<>>, search_calls |-> r.search_calls,
                met |-> "none"]
    IN  IF r.raised
        THEN [store |-> r.store, gen |-> [gen EXCEPT !.pos = "raised", !.error = r.error]]
        ELSE IF r.documents = <<>>
        THEN [store |-> r.store, gen |-> [gen EXCEPT !.yielded = <<NoInfoMessage>>]]
        ELSE IF env.llm_fails
        THEN [store |-> r.store,
              gen |-> [gen EXCEPT !.pos = "raised", !.error = BackendError,
                                  !.llm_calls = <<prov>>]]
        ELSE IF frags = <<>>
        THEN [store |-> r.store, gen |-> [gen EXCEPT !.pos = "done", !.llm_calls = <<prov>>]]
        ELSE [store |-> r.store,
              gen |-> [gen EXCEPT !.yielded = <<Head(frags)>>, !.pending = Tail(frags),
                                  !.llm_calls = <<prov>>]]

\* a later next() on the suspended generator: the next fragment, the end of the
\* stream, or the error the backend stream raises
stream_next(gen, llm_fails) ==
    IF gen.documents # <<>> /\ llm_fails
    THEN [gen EXCEPT !.pos = "raised", !.error = BackendError]
    ELSE IF gen.pending # <<>>
    THEN [gen EXCEPT !.yielded = @ \o <<Head(gen.pending)>>, !.pending = Tail(@)]
    ELSE [gen EXCEPT !.pos = "done"]

----------------------------------------------------------------------------
(* config.py and the constructors *)

\* Literal["openai", "ollama"]
Providers == {"openai", "ollama"}

\* the provider names and the OPENAI_API_KEY values a configuration may carry
ProviderNames == Providers \cup {"azure"}
ApiKeys == {"None", "", "sk-test"}

\* VectorStore.__init__'s default embedding_provider
DefaultEmbeddingProvider == "ollama"

\* Settings.chunk_size's and Settings.chunk_overlap's defaults
DefaultChunkSize == 1000
DefaultChunkOverlap == 200

\* the chunk_size and chunk_overlap values a configuration may carry
ChunkSizes == {99, 100, 1000}
ChunkOverlaps == {0, 100, 200, 1000, 1001}

\* Settings.__init__: pydantic rejects a name outside the Literal and a number
\* outside its field's range, then the llm provider's credential is checked
Settings(llm_provider, embedding_provider, openai_api_key, chunk_size, chunk_overlap) ==
    LET value == [chunk_size |-> chunk_size, chunk_overlap |-> chunk_overlap,
                  llm_provider |-> llm_provider, embedding_provider |-> embedding_provider,
                  openai_api_key |-> openai_api_key]
    IN  IF \/ llm_provider \notin Providers \/ embedding_provider \notin Providers
           \/ chunk_size \notin 100..4000
           \/ chunk_overlap \notin 0..1000
        THEN [raised |-> TRUE, error |-> "ValidationError", value |-> value]
        ELSE IF llm_provider = "openai" /\ openai_api_key \in {"None", ""}
        THEN [raised |-> TRUE, error |-> "ValueError", value |-> value]
        ELSE [raised |-> FALSE, error |-> "", value |-> value]

\* DocumentProcessor.__init__: the text splitter's constructor refuses an
\* overlap larger than the chunk size
DocumentProcessor_init(chunk_size, chunk_overlap) ==
    IF chunk_overlap > chunk_size
    THEN [raised |-> TRUE, error |-> "ValueError"]
    ELSE [raised |-> FALSE, error |-> ""]

\* VectorStore.__init__: the embeddings of the named provider, the handle unset
VectorStore_init(embedding_provider, openai_api_key) ==
    IF embedding_provider \in Providers
    THEN [raised |-> FALSE, error |-> "", embedding_provider |-> embedding_provider,
          vector_store |-> "None"]
    ELSE [raised |-> TRUE, error |-> "ValueError", embedding_provider |-> "",
          vector_store |-> "None"]

\* ResponseGenerator.__init__: the llm of the named provider
ResponseGenerator_init(prov, openai_api_key) ==
    IF prov \in Providers
    THEN [raised |-> FALSE, error |-> "", provider |-> prov]
    ELSE [raised |-> TRUE, error |-> "ValueError", provider |-> ""]

\* RAGPipeline.__init__(settings): neither constructor is given a provider
\* argument, so both take their defaults
RAGPipeline_init(settings) ==
    LET dp  == DocumentProcessor_init(settings.chunk_size, settings.chunk_overlap)
        vs  == VectorStore_init(DefaultEmbeddingProvider, settings.openai_api_key)
        gen == ResponseGenerator_init(DefaultProvider, settings.openai_api_key)
    IN  IF dp.raised
        THEN [raised |-> TRUE, error |-> dp.error, generator_provider |-> "",
              embedding_provider |-> "", vector_store |-> "None"]
        ELSE IF vs.raised
        THEN [raised |-> TRUE, error |-> vs.error, generator_provider |-> "",
              embedding_provider |-> "", vector_store |-> "None"]
        ELSE IF gen.raised
        THEN [raised |-> TRUE, error |-> gen.error, generator_provider |-> "",
              embedding_provider |-> "", vector_store |-> "None"]
        ELSE [raised |-> FALSE, error |-> "", generator_provider |-> gen.provider,
              embedding_provider |-> vs.embedding_provider, vector_store |-> vs.vector_store]

----------------------------------------------------------------------------
(* The state machine *)

\* the VectorStore as the operators above see it
Store == [vs |-> vector_store, coll |-> collection]

\* `last` before any call, and the shape every record of a call has
NoCall ==
    [op |-> "none", question |-> "", history |-> <<>>, return_sources |-> FALSE,
     file |-> "None", dir |-> {}, reset |-> FALSE, k |-> NoK, env |-> NoEnv,
     pre_vs |-> "None", pre_count |-> 0,
     outcome |-> "none", error |-> "", answer |-> <<>>, sources |-> <<>>,
     retrieved |-> <<>>, provided |-> <<>>, pairs |-> <<>>, count |-> -1, n_loaded |-> 0,
     llm_calls |-> <<>>, search_calls |-> 0, write_calls |-> 0,
     settings |-> Settings(DefaultProvider, DefaultEmbeddingProvider, "None",
                           DefaultChunkSize, DefaultChunkOverlap).value,
     embedding_provider |-> "",
     batches |-> <<>>, batch_size |-> 0,
     batch |-> <<>>, chunk_size |-> 0, chunk_overlap |-> 0, chunks |-> <<>>,
     provider |-> "", documents |-> <<>>, context |-> <<>>, prompt |-> <<>>,
     stream_prompt |-> <<>>, emitted |-> <<>>, fragments |-> <<>>]

\* a call `op` entered in the current state
Call(op) == [NoCall EXCEPT !.op = op, !.pre_vs = vector_store, !.pre_count = Len(collection)]

\* no generator object
NoStream ==
    [pos |-> "none", question |-> "", history |-> <<>>, documents |-> <<>>,
     pending |-> <<>>, yielded |-> <<>>, error |-> "", llm_calls |-> <<>>,
     search_calls |-> 0, met |-> "none"]

\* no call is running: reset_pc and call_pc are the statements the thread in
\* reset() and the thread in similarity_search() or add_documents() execute next
NoThreads ==
    [reset_pc |-> "idle", call |-> "none", call_pc |-> "idle", question |-> "",
     documents |-> <<>>, outcome |-> "none", error |-> "", results |-> <<>>]

Init ==
    /\ vector_store = "None"
    /\ collection = <<>>
    /\ threshold \in Thresholds
    /\ provider = DefaultProvider
    /\ last = NoCall
    /\ stream = NoStream
    /\ threads = NoThreads

\* the process ends and a new one builds its pipeline: VectorStore.__init__ leaves
\* the handle unset, the collection persists on disk
Restart ==
    /\ vector_store' = "None"
    /\ last' = [NoCall EXCEPT !.op = "restart"]
    /\ stream' = NoStream
    /\ UNCHANGED <<threads, collection, threshold, provider>>

\* Settings(...) and RAGPipeline(settings) in a new process: a configuration
\* that is rejected builds no pipeline
Construct ==
    \E llm_provider \in ProviderNames, embedding_provider \in ProviderNames,
       openai_api_key \in ApiKeys, chunk_size \in ChunkSizes,
       chunk_overlap \in ChunkOverlaps :
        \E st \in {Settings(llm_provider, embedding_provider, openai_api_key,
                             chunk_size, chunk_overlap)} :
        \E r \in {RAGPipeline_init(st.value)} :
            IF st.raised \/ r.raised
            THEN /\ last' = [Call("construct") EXCEPT
                                 !.settings = st.value, !.outcome = "raise",
                                 !.error = IF st.raised THEN st.error ELSE r.error]
                 /\ UNCHANGED <<threads, vector_store, collection, threshold, provider, stream>>
            ELSE /\ vector_store' = r.vector_store
                 /\ provider' = r.generator_provider
                 /\ last' = [Call("construct") EXCEPT
                                 !.settings = st.value, !.outcome = "ok",
                                 !.embedding_provider = r.embedding_provider]
                 /\ stream' = NoStream
                 /\ UNCHANGED <<threads, collection, threshold>>

Ingest ==
    \E dir \in Directories, file_path \in Files \cup {"None"}, do_reset \in BOOLEAN,
       fail_batch \in 0..1 :
        /\ file_path # "None" => dir = {}
        /\ \E env \in {[NoEnv EXCEPT !.fail_batch = fail_batch]} :
           \E r \in {ingest_documents(Store, dir, file_path, do_reset, env)} :
            /\ Len(r.store.coll) <= MaxStore
            /\ vector_store' = r.store.vs
            /\ collection' = r.store.coll
            /\ last' = [Call("ingest") EXCEPT
                            !.file = file_path, !.dir = dir, !.reset = do_reset,
                            !.env = IF r.write_calls > 0 THEN env ELSE NoEnv,
                            !.outcome = r.outcome, !.error = r.error, !.count = r.count,
                            !.n_loaded = r.n_loaded, !.write_calls = r.write_calls]
            /\ UNCHANGED <<threads, threshold, provider, stream>>

Query ==
    \E question \in Questions, chat_history \in Histories, return_sources \in BOOLEAN,
       search_fails \in BOOLEAN, llm_fails \in BOOLEAN :
        /\ ~(search_fails /\ llm_fails)
        /\ \E env \in {[NoEnv EXCEPT !.search_fails = search_fails, !.llm_fails = llm_fails]} :
           \E r \in {query(Store, provider, question, chat_history, return_sources, threshold, env)} :
            /\ vector_store' = r.store.vs
            /\ collection' = r.store.coll
            /\ last' = [Call("query") EXCEPT
                            !.question = question, !.history = chat_history,
                            !.return_sources = return_sources,
                            !.env = [env EXCEPT !.llm_fails = @ /\ r.llm_calls # <<>>],
                            !.outcome = r.outcome, !.error = r.error, !.answer = r.answer,
                            !.sources = r.sources, !.retrieved = r.retrieved,
                            !.provided = r.provided, !.llm_calls = r.llm_calls,
                            !.search_calls = r.search_calls]
            /\ UNCHANGED <<threads, threshold, provider, stream>>

\* the k a caller of the retriever passes
Ks == {NoK, 0, 1, 2}

Retrieve ==
    \E question \in Questions, k \in Ks, search_fails \in BOOLEAN :
        \E r \in {retrieve(Store, question, k, threshold, search_fails)} :
            /\ vector_store' = r.store.vs
            /\ collection' = r.store.coll
            /\ last' = [Call("retrieve") EXCEPT
                            !.question = question, !.k = k,
                            !.env = [NoEnv EXCEPT !.search_fails = search_fails],
                            !.outcome = IF r.raised THEN "raise" ELSE "ok",
                            !.error = r.error, !.retrieved = r.documents,
                            !.provided = r.provided, !.search_calls = r.search_calls]
            /\ UNCHANGED <<threads, threshold, provider, stream>>

RetrieveWithScores ==
    \E question \in Questions, k \in Ks, search_fails \in BOOLEAN :
        \E r \in {retrieve_with_scores(Store, question, k, threshold, search_fails)} :
            /\ vector_store' = r.store.vs
            /\ collection' = r.store.coll
            /\ last' = [Call("retrieve_with_scores") EXCEPT
                            !.question = question, !.k = k,
                            !.env = [NoEnv EXCEPT !.search_fails = search_fails],
                            !.outcome = IF r.raised THEN "raise" ELSE "ok",
                            !.error = r.error, !.pairs = r.pairs,
                            !.retrieved = Docs(r.pairs),
                            !.provided = r.provided, !.search_calls = r.search_calls]
            /\ UNCHANGED <<threads, threshold, provider, stream>>

GetStats ==
    \E dir \in Directories :
        /\ last' = [Call("get_stats") EXCEPT
                        !.dir = dir, !.outcome = "ok",
                        !.count = get_stats(Store, dir).documents_in_store,
                        !.n_loaded = get_stats(Store, dir).source_files]
        /\ UNCHANGED <<threads, vector_store, collection, threshold, provider, stream>>

ResetVectorStore ==
    LET S1 == reset_vector_store(Store)
    IN  /\ vector_store' = S1.vs
        /\ collection' = S1.coll
        /\ last' = [Call("reset_vector_store") EXCEPT !.outcome = "ok"]
        /\ UNCHANGED <<threads, threshold, provider, stream>>

\* stream_query(question, chat_history) returns a generator: nothing runs yet
StreamQuery ==
    \E question \in Questions, chat_history \in Histories :
        /\ stream' = [NoStream EXCEPT !.pos = "created", !.question = question,
                                      !.history = chat_history]
        /\ UNCHANGED <<threads, vector_store, collection, threshold, provider, last>>

\* next() on the generator; met: the backend failure this or an earlier pull met
StreamPull ==
    \E search_fails \in BOOLEAN, llm_fails \in BOOLEAN :
        \/ /\ stream.pos = "created"
           /\ ~(search_fails /\ llm_fails)
           /\ \E r \in {stream_query(Store, provider, stream.question, stream.history, threshold,
                                     [NoEnv EXCEPT !.search_fails = search_fails,
                                                   !.llm_fails = llm_fails])} :
                  /\ vector_store' = r.store.vs
                  /\ collection' = r.store.coll
                  /\ stream' = [r.gen EXCEPT !.met =
                                    IF search_fails THEN "search"
                                    ELSE IF llm_fails /\ r.gen.llm_calls # <<>> THEN "llm"
                                    ELSE "none"]
           /\ UNCHANGED <<threads, threshold, provider, last>>
        \/ /\ stream.pos = "streaming"
           /\ ~search_fails
           /\ \E g \in {stream_next(stream, llm_fails)} :
                  stream' = [g EXCEPT !.met = IF llm_fails /\ g.llm_calls # <<>>
                                              THEN "llm" ELSE "none"]
           /\ UNCHANGED <<threads, vector_store, collection, threshold, provider, last>>

\* the calls that run to completion when made
Next ==
    \/ Restart
    \/ Ingest
    \/ Query
    \/ Retrieve
    \/ RetrieveWithScores
    \/ GetStats
    \/ ResetVectorStore

Spec == Init /\ [][Next]_vars

\* Settings.similarity_threshold's default, 0.7
DefaultThreshold == 7

\* a pipeline built from the default Settings
InitDefault == Init /\ threshold = DefaultThreshold

\* the construction of pipelines from configurations
NextConfig == Construct

SpecConfig == InitDefault /\ [][NextConfig]_vars

\* the pipeline with stream_query's generator pulled step by step
NextStream ==
    \/ Restart
    \/ Ingest
    \/ ResetVectorStore
    \/ Query
    \/ StreamQuery
    \/ StreamPull

SpecStream == InitDefault /\ [][NextStream]_vars

----------------------------------------------------------------------------
(* VectorStore.add_documents called with a batch size *)

MaxBatchSize == 3

\* the documents of three files, in two orders
WriteOrders ==
    { load_document("a.txt").documents \o load_document("b.md").documents
          \o load_document("e.txt").documents,
      load_document("e.txt").documents \o load_document("a.txt").documents
          \o load_document("b.md").documents }

\* the document lists handed to add_documents: none, or the first documents of
\* one of the orders
WriteLists == {SubSeq(w, 1, n) : w \in WriteOrders, n \in 0..3}

\* pipeline.vector_store.add_documents(documents, batch_size); the backend
\* rejects the write of batch fail_batch (0: none)
AddDocuments ==
    \E documents \in WriteLists, batch_size \in 1..MaxBatchSize, fail_batch \in 0..MaxStore :
        /\ fail_batch <= NumBatches(Len(documents), batch_size)
        /\ \E r \in {add_documents(Store, documents, batch_size, fail_batch)} :
            /\ Len(r.store.coll) <= MaxStore
            /\ vector_store' = r.store.vs
            /\ collection' = r.store.coll
            /\ last' = [Call("add_documents") EXCEPT
                            !.documents = documents, !.batch_size = batch_size,
                            !.env = [NoEnv EXCEPT !.fail_batch = fail_batch],
                            !.outcome = IF r.raised THEN "raise" ELSE "ok",
                            !.error = r.error, !.write_calls = r.write_calls,
                            !.batches = r.batches]
            /\ UNCHANGED <<threads, threshold, provider, stream>>

NextStore ==
    \/ Restart
    \/ ResetVectorStore
    \/ Ingest
    \/ AddDocuments

SpecStore == InitDefault /\ [][NextStore]_vars

----------------------------------------------------------------------------
(* reset() running at the same time as similarity_search() or add_documents()
   on one VectorStore.  Each action is one statement of one thread; between
   delete_collection's backend call and its assignment of None the handle is
   "deleted": a Chroma object whose collection is gone, so that a call through
   it is refused by the backend. *)

\* the documents the concurrent add_documents writes
ConcurrentWrites == {process_documents(load_document("b.md").documents, ChunkSize, ChunkOverlap)}

\* one thread enters reset(), another similarity_search(question) or
\* add_documents(documents)
StartCalls ==
    /\ threads = NoThreads
    /\ \/ \E question \in Questions :
              threads' = [NoThreads EXCEPT !.reset_pc = "delete_collection",
                                           !.call = "similarity_search",
                                           !.call_pc = "check", !.question = question]
       \/ \E documents \in ConcurrentWrites :
              /\ Len(collection) + Len(documents) <= MaxStore
              /\ threads' = [NoThreads EXCEPT !.reset_pc = "delete_collection",
                                              !.call = "add_documents",
                                              !.call_pc = "check", !.documents = documents]
    /\ UNCHANGED <<vector_store, collection, threshold, provider, last, stream>>

\* delete_collection: if self.vector_store is not None
ResetCheck ==
    /\ threads.reset_pc = "delete_collection"
    /\ threads' = [threads EXCEPT !.reset_pc =
                       IF vector_store # "None" THEN "backend_delete" ELSE "create_or_load"]
    /\ UNCHANGED <<vector_store, collection, threshold, provider, last, stream>>

\* delete_collection: self.vector_store.delete_collection()
ResetDelete ==
    /\ threads.reset_pc = "backend_delete"
    /\ collection' = <<>>
    /\ vector_store' = "deleted"
    /\ threads' = [threads EXCEPT !.reset_pc = "unset"]
    /\ UNCHANGED <<threshold, provider, last, stream>>

\* delete_collection: self.vector_store = None
ResetUnset ==
    /\ threads.reset_pc = "unset"
    /\ vector_store' = "None"
    /\ threads' = [threads EXCEPT !.reset_pc = "create_or_load"]
    /\ UNCHANGED <<collection, threshold, provider, last, stream>>

\* reset: self.create_or_load()
ResetCreate ==
    /\ threads.reset_pc = "create_or_load"
    /\ vector_store' = create_or_load(Store).vs
    /\ threads' = [threads EXCEPT !.reset_pc = "done"]
    /\ UNCHANGED <<collection, threshold, provider, last, stream>>

\* similarity_search / add_documents: if self.vector_store is None: create_or_load()
CallCheck ==
    /\ threads.call_pc = "check"
    /\ vector_store' = IF vector_store = "None" THEN create_or_load(Store).vs
                       ELSE vector_store
    /\ threads' = [threads EXCEPT !.call_pc = "use"]
    /\ UNCHANGED <<collection, threshold, provider, last, stream>>

\* similarity_search / add_documents: the call on self.vector_store inside the
\* try block.  On None the attribute access raises AttributeError, which the
\* except clause logs and re-raises
CallUse ==
    /\ threads.call_pc = "use"
    /\ IF vector_store = "None"
       THEN /\ threads' = [threads EXCEPT !.call_pc = "done", !.outcome = "raise",
                                          !.error = "AttributeError"]
            /\ UNCHANGED collection
       ELSE IF vector_store = "deleted"
       THEN /\ threads' = [threads EXCEPT !.call_pc = "done", !.outcome = "raise",
                                          !.error = BackendError]
            /\ UNCHANGED collection
       ELSE IF threads.call = "add_documents"
       THEN /\ threads' = [threads EXCEPT !.call_pc = "done", !.outcome = "ok"]
            /\ collection' = collection \o threads.documents
       ELSE /\ threads' = [threads EXCEPT
                              !.call_pc = "done", !.outcome = "ok",
                              !.results = similarity_search_with_relevance_scores(
                                              collection, threads.question, max_results)]
            /\ UNCHANGED collection
    /\ UNCHANGED <<vector_store, threshold, provider, last, stream>>

\* both calls have returned or raised
Join ==
    /\ threads.reset_pc = "done" /\ threads.call_pc = "done"
    /\ threads' = NoThreads
    /\ UNCHANGED <<vector_store, collection, threshold, provider, last, stream>>

NextConcurrent ==
    \/ (threads = NoThreads /\ Restart)
    \/ (threads = NoThreads /\ Ingest)
    \/ StartCalls
    \/ ResetCheck
    \/ ResetDelete
    \/ ResetUnset
    \/ ResetCreate
    \/ CallCheck
    \/ CallUse
    \/ Join

SpecConcurrent == InitDefault /\ [][NextConcurrent]_vars

----------------------------------------------------------------------------
(* DocumentProcessor used on its own *)

\* the largest chunk_size a processor is built with
MaxChunkSize == 4

\* documents handed to a processor
Texts == {"blank", "words", "long", "sentence"}

TextContent(name) ==
    CASE name = "blank"    -> <<" ", "\n", " ">>
      [] name = "words"    -> <<"a", "b", " ", " ", "c", "d", " ", "e">>
      [] name = "long"     -> <<"a", "b", "c", "d", "e", "f", "g">>
      [] name = "sentence" -> <<"a", ".", " ", "b", "\n", "c">>

TextDocument(name) == [source |-> name, content |-> TextContent(name)]

\* the batches of at most two documents
Batches ==
    {<<>>} \cup {<<TextDocument(n)>> : n \in Texts}
           \cup {<<TextDocument(n), TextDocument(m)>> : n \in Texts, m \in Texts}

\* DocumentProcessor(chunk_size, chunk_overlap).process_documents(batch)
ProcessDocuments ==
    \E batch \in Batches, chunk_size \in 1..MaxChunkSize :
        \E chunk_overlap \in 0..chunk_size :
            /\ last' = [Call("process_documents") EXCEPT
                            !.batch = batch, !.chunk_size = chunk_size,
                            !.chunk_overlap = chunk_overlap, !.outcome = "ok",
                            !.chunks = process_documents(batch, chunk_size, chunk_overlap)]
            /\ UNCHANGED <<threads, vector_store, collection, threshold, provider, stream>>

NextChunker == ProcessDocuments

SpecChunker == InitDefault /\ [][NextChunker]_vars

----------------------------------------------------------------------------
(* ResponseGenerator and DocumentRetriever.format_context used on their own *)

\* the chat_history a caller of the generator passes: none, or one exchange
ChatHistories == {<<>>, <<"human: hi", "ai: hello">>}

\* the document lists handed to the formatters
DocumentLists ==
    { <<>>,
      <<[source |-> "b.md", content |-> <<"z", " ">>]>>,
      <<[source |-> "a.txt", content |-> <<" ", "c", "d">>]>>,
      <<[source |-> "a.txt", content |-> <<"a", "b">>],
        [source |-> "b.md", content |-> <<"z", " ">>]>> }

\* the context strings handed to generate and stream_generate
Contexts ==
    {format_context(d) : d \in DocumentLists} \cup {format_documents(d) : d \in DocumentLists}

\* retriever.format_context(documents)
FormatContext ==
    \E documents \in DocumentLists :
        /\ last' = [Call("format_context") EXCEPT
                        !.documents = documents, !.outcome = "ok",
                        !.context = format_context(documents)]
        /\ UNCHANGED <<threads, vector_store, collection, threshold, provider, stream>>

\* ResponseGenerator(provider).generate_from_documents(question, documents, chat_history)
GenerateFromDocuments ==
    \E prov \in Providers, question \in Questions, documents \in DocumentLists,
       chat_history \in ChatHistories, llm_fails \in BOOLEAN :
        \E g \in {generate_from_documents(prov, question, documents, chat_history, llm_fails)} :
            /\ last' = [Call("generate_from_documents") EXCEPT
                            !.provider = prov, !.question = question,
                            !.documents = documents, !.history = chat_history,
                            !.env = [NoEnv EXCEPT !.llm_fails = llm_fails],
                            !.outcome = IF g.raised THEN "raise" ELSE "ok",
                            !.error = g.error, !.answer = g.answer,
                            !.llm_calls = g.llm_calls, !.prompt = g.prompt]
            /\ UNCHANGED <<threads, vector_store, collection, threshold, provider, stream>>

\* one generator asked the same (question, context, chat_history) twice: by
\* generate, then by stream_generate consumed to its end
GenerateThenStream ==
    \E prov \in Providers, question \in Questions, context \in Contexts,
       chat_history \in ChatHistories :
        \E g \in {generate(prov, question, context, chat_history, FALSE)} :
        \E st \in {stream_generate(prov, question, context, chat_history)} :
            /\ last' = [Call("generate_then_stream") EXCEPT
                            !.provider = prov, !.question = question,
                            !.context = context, !.history = chat_history,
                            !.outcome = "ok", !.answer = g.answer,
                            !.llm_calls = g.llm_calls \o <<prov>>,
                            !.prompt = g.prompt, !.stream_prompt = st.prompt,
                            !.emitted = st.emitted, !.fragments = st.fragments]
            /\ UNCHANGED <<threads, vector_store, collection, threshold, provider, stream>>

NextGenerator ==
    \/ FormatContext
    \/ GenerateFromDocuments
    \/ GenerateThenStream

SpecGenerator == InitDefault /\ [][NextGenerator]_vars

----------------------------------------------------------------------------
(* Claims *)

\* C1: when retrieval returns no document, query answers the fixed message with
\* no sources and stream_query yields the fixed message once and ends, and
\* neither invokes the generator's backend.
C1_EmptyRetrievalShortCircuits ==
    /\ (last.op = "query" /\ last.outcome = "ok" /\ last.retrieved = <<>>)
         => /\ last.llm_calls = <<>>
            /\ last.answer = NoInfoMessage
            /\ last.sources = <<>>
    /\ (stream.pos \in {"streaming", "done"} /\ stream.documents = <<>>)
         => /\ stream.llm_calls = <<>>
            /\ stream.yielded = <<NoInfoMessage>>
            /\ stream.pending = <<>>

\* a query and a finished stream that both found nothing above the threshold in
\* a collection that holds chunks
C1_Witness ==
    /\ collection # <<>>
    /\ last.op = "query" /\ last.outcome = "ok"
    /\ last.provided # <<>> /\ last.retrieved = <<>>
    /\ last.return_sources
    /\ stream.pos = "done" /\ stream.documents = <<>>

\* C2: right after reset_vector_store() the collection holds no document,
\* whatever state the handle was in.
C2_ResetEmptiesCollection ==
    last.op = "reset_vector_store" => (vector_store = "ready" /\ collection = <<>>)

\* C3: after ingest(reset=True) returns N the index holds exactly the N chunks
\* of that call.
C3_ResetIngestHoldsExactlyN ==
    (last.op = "ingest" /\ last.reset /\ last.outcome = "ok")
        => Len(collection) = last.count

\* C4: a read or write of the Index Provider (a search, a count, a reset, a
\* write of documents) made on an unset handle leaves the handle ready.
C4_EveryIndexCallMaterializes ==
    ( /\ last.pre_vs = "None"
      /\ last.outcome = "ok"
      /\ \/ last.op \in {"retrieve", "get_stats", "reset_vector_store"}
         \/ (last.op = "ingest" /\ last.write_calls > 0) )
        => vector_store = "ready"

\* C5: get_stats().documents_in_store is the number of chunks the persisted
\* collection holds.
C5_StatsCountCollection ==
    last.op = "get_stats" => last.count = Len(collection)

\* C6: the fragments of a finished stream_query, concatenated, are the answer
\* query returned for the same question, history and retrieved documents.
C6_StreamEqualsQuery ==
    ( /\ last.op = "query" /\ last.outcome = "ok" /\ last.retrieved # <<>>
      /\ stream.pos = "done"
      /\ stream.question = last.question /\ stream.history = last.history
      /\ stream.documents = last.retrieved )
        => Concat(stream.yielded) = last.answer

RECURSIVE Survivors(_, _, _)
\* docs are, in order, documents of `provided` entries scored >= thr
Survivors(docs, provided, thr) ==
    IF docs = <<>> THEN TRUE
    ELSE IF provided = <<>> THEN FALSE
    ELSE \/ /\ Head(provided).doc = Head(docs)
            /\ Head(provided).score >= thr
            /\ Survivors(Tail(docs), Tail(provided), thr)
         \/ Survivors(docs, Tail(provided), thr)

\* C7: what retrieve, retrieve_with_scores and query's retrieval surface is an
\* order-preserving selection of the provider's ranked results, each scored at
\* least similarity_threshold; the provider's ranking is by descending score.
C7_ThresholdFilter ==
    last.op \in {"retrieve", "retrieve_with_scores", "query"} =>
        /\ Survivors(last.retrieved, last.provided, threshold)
        /\ \A i \in 1..Len(last.pairs) : last.pairs[i].score >= threshold
        /\ IsSubsequence(last.pairs, last.provided)
        /\ \A i, j \in 1..Len(last.provided) :
               i < j => last.provided[i].score >= last.provided[j].score

\* a retrieve that kept one result and dropped another
C7_Witness ==
    /\ last.op = "retrieve" /\ last.outcome = "ok"
    /\ last.retrieved # <<>>
    /\ Len(last.retrieved) < Len(last.provided)

\* the thresholds compared
ThresholdGrid == {0, 3, 5, 7, 10}

\* C8: for the same query, k and index state, the documents retrieved with a
\* higher threshold are a sub-list of those retrieved with a lower one.
C8_ThresholdMonotonic ==
    \A q \in Questions, k \in Ks, t1, t2 \in ThresholdGrid :
        t1 <= t2 =>
            LET low  == retrieve(Store, q, k, t1, FALSE).documents
                high == retrieve(Store, q, k, t2, FALSE).documents
            IN  /\ IsSubsequence(high, low)
                /\ Len(high) <= Len(low)

\* a retrieve on a collection where raising the threshold drops some results
\* and keeps others
C8_Witness ==
    /\ last.op = "retrieve" /\ last.outcome = "ok"
    /\ \E q \in Questions, t1, t2 \in ThresholdGrid :
          /\ t1 < t2
          /\ retrieve(Store, q, NoK, t2, FALSE).documents # <<>>
          /\ Len(retrieve(Store, q, NoK, t2, FALSE).documents)
               < Len(retrieve(Store, q, NoK, t1, FALSE).documents)

\* C9: ingest returns the number of chunks it wrote: without reset the
\* collection grows by the returned count, and when the loader finds no
\* document it returns 0, raises nothing and writes nothing.
C9_IngestReturnsChunksWritten ==
    last.op = "ingest" =>
        /\ (last.outcome = "ok" /\ ~last.reset)
             => Len(collection) = last.pre_count + last.count
        /\ (last.file = "None" /\ load_directory(last.dir) = <<>>)
             => /\ last.outcome = "ok"
                /\ last.count = 0
                /\ last.write_calls = 0
                /\ ~last.reset => Len(collection) = last.pre_count

\* an ingest without reset that added chunks to a collection already holding some
C9_Witness ==
    /\ last.op = "ingest" /\ last.outcome = "ok" /\ ~last.reset
    /\ last.pre_count > 0
    /\ last.count > 0
    /\ last.count # last.n_loaded

\* C10: a failing backend call (search, generation, streaming, index write)
\* reaches the caller as that error: the call is made once, no other provider
\* is invoked, and no answer, result or count is returned.
C10_BackendFailurePropagates ==
    /\ last.env.search_fails =>
         /\ last.outcome = "raise" /\ last.error = BackendError
         /\ last.search_calls = 1 /\ last.llm_calls = <<>>
         /\ last.answer = <<>> /\ last.sources = <<>> /\ last.retrieved = <<>>
    /\ last.env.llm_fails =>
         /\ last.outcome = "raise" /\ last.error = BackendError
         /\ last.llm_calls = <<provider>>
         /\ last.answer = <<>> /\ last.sources = <<>>
    /\ last.env.fail_batch > 0 =>
         /\ last.outcome = "raise" /\ last.error = BackendError
         /\ last.write_calls = last.env.fail_batch
         /\ last.count = -1
    /\ stream.met = "search" =>
         /\ stream.pos = "raised" /\ stream.error = BackendError
         /\ stream.search_calls = 1 /\ stream.llm_calls = <<>>
         /\ stream.yielded = <<>>
    /\ stream.met = "llm" =>
         /\ stream.pos = "raised" /\ stream.error = BackendError
         /\ stream.llm_calls = <<provider>>

\* a query whose generation failed, next to a stream that failed after a fragment
C10_Witness ==
    /\ last.op = "query" /\ last.env.llm_fails
    /\ stream.met = "llm" /\ stream.yielded # <<>>

\* a provider whose backend needs the OpenAI credential
RequiresCredential(name) == name = "openai"

\* C11: a configuration naming an unsupported provider, or selecting a provider
\* whose credential is missing, is rejected at construction, and a pipeline that
\* is built runs the providers its configuration selected.
C11_ConfigFailsFast ==
    last.op = "construct" =>
        /\ ( \/ last.settings.llm_provider \notin Providers
             \/ last.settings.embedding_provider \notin Providers )
              => last.outcome = "raise"
        /\ ( /\ \/ RequiresCredential(last.settings.llm_provider)
                \/ RequiresCredential(last.settings.embedding_provider)
             /\ last.settings.openai_api_key \in {"None", ""} )
              => last.outcome = "raise"
        /\ last.outcome = "ok" =>
              /\ provider = last.settings.llm_provider
              /\ last.embedding_provider = last.settings.embedding_provider

\* C12: the pipeline's generator provider is settings.llm_provider and its
\* vector store's embedding provider is settings.embedding_provider.
C12_ProvidersFromSettings ==
    (last.op = "construct" /\ last.outcome = "ok") =>
        <<provider, last.embedding_provider>>
            = <<last.settings.llm_provider, last.settings.embedding_provider>>

\* C13: ingest(file_path=p) with an unsupported suffix raises the loader's
\* ValueError, returns no count and writes no chunk.
C13_UnsupportedFileFailsCall ==
    ( /\ last.op = "ingest"
      /\ last.file # "None"
      /\ Suffix(last.file) \notin Range(SUPPORTED_EXTENSIONS) )
        => /\ last.outcome = "raise"
           /\ last.error = "ValueError"
           /\ last.count = -1
           /\ last.write_calls = 0
           /\ Len(collection) <= last.pre_count
           /\ ~last.reset => Len(collection) = last.pre_count

\* an ingest of the .csv file into a collection that holds chunks
C13_Witness ==
    /\ last.op = "ingest" /\ last.file = "x.csv"
    /\ last.outcome = "raise"
    /\ last.pre_count > 0 /\ collection # <<>>

\* the files of a directory that are supported and can be read
ReadableSupported(dir) ==
    {f \in dir : Suffix(f) \in Range(SUPPORTED_EXTENSIONS) /\ ~Unreadable(f)}

\* C14: a directory ingest does not raise for a file that cannot be loaded, and
\* loads every other readable supported file, those sharing the failing file's
\* extension included.
C14_DirectoryIngestSkipsOnlyBadFiles ==
    (last.op = "ingest" /\ last.file = "None" /\ last.env.fail_batch = 0)
        => /\ last.outcome = "ok"
           /\ last.n_loaded = Cardinality(ReadableSupported(last.dir))

\* C15: the chunk_id values of the chunks of one batch are 0..N-1 in output
\* order, numbered across the batch and not per source.
C15_ChunkIdsContiguous ==
    last.op = "process_documents" =>
        \A i \in 1..Len(last.chunks) : last.chunks[i].chunk_id = i - 1

\* a batch of two sources, each cut into chunks
C15_Witness ==
    /\ last.op = "process_documents"
    /\ Len(last.chunks) >= 4
    /\ \E i \in 2..Len(last.chunks) :
          /\ last.chunks[i].source # last.chunks[i - 1].source
          /\ i < Len(last.chunks)
          /\ last.chunks[i + 1].source = last.chunks[i].source

\* C16: with 0 <= chunk_overlap < chunk_size, every chunk's content is at most
\* chunk_size long and its chunk_size metadata is that length.
C16_ChunkLengthBounded ==
    (last.op = "process_documents" /\ last.chunk_overlap < last.chunk_size) =>
        \A i \in 1..Len(last.chunks) :
            /\ Len(last.chunks[i].content) <= last.chunk_size
            /\ last.chunks[i].chunk_size = Len(last.chunks[i].content)

\* a word longer than chunk_size cut into chunks, one of them full
C16_Witness ==
    /\ last.op = "process_documents" /\ last.chunk_overlap < last.chunk_size
    /\ last.batch = <<TextDocument("long")>>
    /\ Len(last.chunks) >= 2
    /\ \E i \in 1..Len(last.chunks) : Len(last.chunks[i].content) = last.chunk_size

\* the last n characters of t / the first n characters of t
Suffix_n(t, n) == SubSeq(t, Len(t) - n + 1, Len(t))
Prefix_n(t, n) == SubSeq(t, 1, n)

\* C17: two adjacent chunks of one source document share chunk_overlap
\* characters: the end of the earlier is the start of the later.
C17_AdjacentChunksOverlap ==
    ( /\ last.op = "process_documents"
      /\ Len(last.batch) = 1
      /\ last.chunk_overlap < last.chunk_size )
        => \A i \in 1..(Len(last.chunks) - 1) :
              LET earlier == last.chunks[i].content
                  later   == last.chunks[i + 1].content
                  n       == last.chunk_overlap
              IN  /\ Len(earlier) >= n
                  /\ Len(later) >= n
                  /\ Suffix_n(earlier, n) = Prefix_n(later, n)

\* a document whose content is empty once its whitespace is collapsed
IsBlank(doc) == CleanText(doc.content) = <<>>

\* C18: process_documents([]) returns [], and a document left empty by the
\* cleaning contributes no chunk while every other document is chunked as it
\* would be without it.
C18_EmptyInputIsValid ==
    last.op = "process_documents" =>
        /\ last.outcome = "ok"
        /\ last.batch = <<>> => last.chunks = <<>>
        /\ \A i \in 1..Len(last.batch) :
              IsBlank(last.batch[i])
                  <=> ~\E j \in 1..Len(last.chunks) :
                          last.chunks[j].source = last.batch[i].source
        /\ last.chunks = process_documents(
                             SelectSeq(last.batch, LAMBDA doc : ~IsBlank(doc)),
                             last.chunk_size, last.chunk_overlap)

\* a batch whose first document is blank and whose second is chunked
C18_Witness ==
    /\ last.op = "process_documents"
    /\ Len(last.batch) = 2
    /\ IsBlank(last.batch[1]) /\ ~IsBlank(last.batch[2])
    /\ Len(last.chunks) >= 2

\* the sentinel strings of the two formatters
ContextSentinel == "No relevant documents found."
GeneratorSentinel == "No relevant information found in the knowledge base."

\* C19 as stated: format_context([]) and generate_from_documents(q, []) both
\* return their sentinel string, never an empty string and never an error.
C19_EmptyDocumentsYieldSentinels ==
    /\ (last.op = "format_context" /\ last.documents = <<>>)
          => last.context = <<ContextSentinel>>
    /\ (last.op = "generate_from_documents" /\ last.documents = <<>>)
          => (last.outcome = "ok" /\ last.answer = <<GeneratorSentinel>>)

\* C19 amended: format_context([]) returns its sentinel; for an empty list
\* generate_from_documents invokes the backend once with a prompt whose context
\* is the generator's sentinel, and returns the backend's answer or raises the
\* backend's error.
C19_EmptyDocumentsSentinelContext ==
    /\ (last.op = "format_context" /\ last.documents = <<>>)
          => last.context = <<ContextSentinel>>
    /\ (last.op = "generate_from_documents" /\ last.documents = <<>>)
          => /\ GeneratorSentinel \in Range(last.prompt)
             /\ last.llm_calls = <<last.provider>>
             /\ last.env.llm_fails
                   => (last.outcome = "raise" /\ last.error = BackendError)
             /\ ~last.env.llm_fails
                   => /\ last.outcome = "ok"
                      /\ last.answer = LLM(last.prompt)
                      /\ last.answer # <<>>

\* generate_from_documents(q, []) answered by the backend
C19_Witness ==
    /\ last.op = "generate_from_documents" /\ last.documents = <<>>
    /\ last.outcome = "ok"
    /\ last.answer # <<GeneratorSentinel>>

\* C20: for each provider and the same (question, context, chat_history),
\* stream_generate sends the prompt generate sends, yields the backend's
\* fragments in the order emitted up to the end of the backend stream, and its
\* fragments concatenated are generate's answer.
C20_StreamGenerateEqualsGenerate ==
    last.op = "generate_then_stream" =>
        /\ last.stream_prompt = last.prompt
        /\ IsSubsequence(last.fragments, last.emitted)
        /\ Concat(last.fragments) = Concat(last.emitted)
        /\ Concat(last.fragments) = last.answer

\* the hosted provider asked with a history, its stream opening with an empty chunk
C20_Witness ==
    /\ last.op = "generate_then_stream"
    /\ last.provider = "openai" /\ last.history # <<>>
    /\ Len(last.fragments) >= 2
    /\ Len(last.fragments) < Len(last.emitted)

\* the turns of `history` stand in `prompt`, in order, before `question`
TurnsBeforeQuestion(prompt, history, question) ==
    \E i \in 1..Len(prompt) :
        /\ OccursAt(prompt, history, i)
        /\ \E j \in (i + Len(history))..Len(prompt) : prompt[j] = question

\* no turn of any history stands in `prompt`
SingleTurn(prompt) ==
    \A h \in ChatHistories : Range(h) \cap Range(prompt) = {}

\* C21: for the hosted and the local provider alike, a non-empty chat_history
\* given to generate or stream_generate reaches the backend in the prompt,
\* before the question; without one the single-turn prompt is sent.
C21_HistoryInPromptForBothProviders ==
    last.op = "generate_then_stream" =>
        /\ last.history # <<>> =>
              /\ TurnsBeforeQuestion(last.prompt, last.history, last.question)
              /\ TurnsBeforeQuestion(last.stream_prompt, last.history, last.question)
        /\ last.history = <<>> =>
              (SingleTurn(last.prompt) /\ SingleTurn(last.stream_prompt))

\* C24: retrieve(query, k) asks the Index Provider for exactly k results when
\* k is given, k = 0 included, and for max_results when it is omitted, and
\* returns no more documents than that number.
C24_RetrieveAsksForK ==
    (last.op = "retrieve" /\ last.outcome = "ok") =>
        LET n == IF last.k = NoK THEN max_results ELSE last.k
        IN  /\ last.provided
                 = similarity_search_with_relevance_scores(collection, last.question, n)
            /\ Len(last.retrieved) <= n

\* C26: the chunks an ingest call writes are numbered from 0 whatever the
\* collection already holds, so an ingest without reset that adds chunks to a
\* collection holding some leaves two entries with the same chunk_id.
C26_ChunkIdsRestartPerIngest ==
    (last.op = "ingest" /\ last.outcome = "ok" /\ last.count > 0) =>
        LET n == Len(collection)
        IN  /\ n >= last.count
            /\ \A i \in 1..last.count :
                   collection[n - last.count + i].chunk_id = i - 1
            /\ (~last.reset /\ last.pre_count > 0) =>
                   \E i \in 1..last.pre_count, j \in (last.pre_count + 1)..n :
                       collection[i].chunk_id = collection[j].chunk_id

\* a second ingest without reset added chunks of another file to a collection
\* that held chunks
C26_Witness ==
    /\ last.op = "ingest" /\ last.outcome = "ok" /\ ~last.reset
    /\ last.pre_count > 0 /\ last.count > 0
    /\ \E i \in 1..last.pre_count, j \in (last.pre_count + 1)..Len(collection) :
           /\ collection[i].chunk_id = collection[j].chunk_id
           /\ collection[i] # collection[j]

C25_OverlapBelowChunkSize ==
    last.op = "construct" =>
        /\ last.settings.chunk_overlap >= last.settings.chunk_size
              => last.outcome = "raise"
        /\ last.outcome = "ok" =>
              /\ 0 <= last.settings.chunk_overlap
              /\ last.settings.chunk_overlap < last.settings.chunk_size

\* what the collection gained during the last call
Gained == SubSeq(collection, last.pre_count + 1, Len(collection))

\* C23: add_documents writes the documents in consecutive batches of at most
\* batch_size, in input order: the batches, in the order they are written, make
\* up the input with every document once, no batch is larger than batch_size,
\* and the collection gains the documents in that order.
C23_BatchesInInputOrder ==
    (last.op = "add_documents" /\ last.outcome = "ok") =>
        /\ Concat(last.batches) = last.documents
        /\ \A b \in 1..Len(last.batches) :
               Len(last.batches[b]) \in 1..last.batch_size
        /\ last.write_calls = Len(last.batches)
        /\ Gained = last.documents

\* three documents written in two batches
C23_Witness ==
    /\ last.op = "add_documents" /\ last.outcome = "ok"
    /\ Len(last.documents) = 3 /\ last.batch_size = 2
    /\ Len(last.batches) = 2

\* C30: when the write of batch j fails inside add_documents the error is
\* raised, no later batch is written, and the documents of batches 1..j-1 stay
\* in the collection: a strict prefix of the input.  An ingest whose write fails
\* raises and returns no count.
C30_FailedBatchLeavesPrefix ==
    /\ (last.op = "add_documents" /\ last.env.fail_batch > 0) =>
          LET j == last.env.fail_batch
          IN  /\ last.outcome = "raise" /\ last.error = BackendError
              /\ last.write_calls = j /\ Len(last.batches) = j
              /\ Gained = Concat(SubSeq(last.batches, 1, j - 1))
              /\ Gained = SubSeq(last.documents, 1, (j - 1) * last.batch_size)
              /\ Len(Gained) < Len(last.documents)
    /\ (last.op = "ingest" /\ last.env.fail_batch > 0) =>
          /\ last.outcome = "raise" /\ last.error = BackendError
          /\ last.count = -1
          /\ last.write_calls = last.env.fail_batch

\* the second of three writes failed and the first document stayed
C30_Witness ==
    /\ last.op = "add_documents" /\ last.env.fail_batch = 2
    /\ last.outcome = "raise"
    /\ Len(last.documents) = 3
    /\ Len(collection) = last.pre_count + 1

\* what the callers of query, ingest and get_stats see of a call made on store S
Observations(S) ==
    [ stats   |-> [d \in Directories |-> get_stats(S, d)],
      answers |-> [q \in Questions |->
                      LET r == query(S, provider, q, <<>>, TRUE, threshold, NoEnv)
                      IN  <<r.outcome, r.answer, r.sources>>],
      streams |-> [q \in Questions |->
                      stream_query(S, provider, q, <<>>, threshold, NoEnv).gen],
      ingests |-> [f \in {"b.md", "x.csv"} |-> [do_reset \in BOOLEAN |->
                      LET r == ingest_documents(S, {}, f, do_reset, NoEnv)
                      IN  <<r.outcome, r.count, r.store.coll>>]] ]

\* C22: creating a stream_query generator and pulling any number of fragments
\* from it leaves the pipeline as if the stream had never been started: the
\* collection is unchanged, and query, stream_query, ingest and get_stats give
\* the results they would have given before that step.
C22_PartialStreamLeavesPipeline ==
    [][ (stream' # stream /\ stream'.pos # "none") =>
            /\ collection' = collection
            /\ Observations([vs |-> vector_store', coll |-> collection'])
                   = Observations(Store) ]_vars

\* the generator exists and has been pulled at least once
Pulled(g) == g.pos \in {"streaming", "done", "raised"}

\* C28: stream_query is lazy.  The call retrieves nothing and invokes no
\* backend; retrieval runs once, at the first pull, on the index as it is at
\* that pull; later pulls retrieve nothing; and the backend is invoked only
\* when retrieval returned a document.
C28_StreamQueryIsLazy ==
    /\ [](/\ stream.pos = "created" =>
                /\ stream.search_calls = 0 /\ stream.llm_calls = <<>>
                /\ stream.documents = <<>> /\ stream.yielded = <<>>
          /\ Pulled(stream) => stream.search_calls = 1
          /\ stream.llm_calls # <<>> => stream.documents # <<>>)
    /\ [][ /\ (stream' # stream /\ stream'.pos = "created") =>
                (vector_store' = vector_store /\ collection' = collection)
           /\ (stream.pos = "created" /\ Pulled(stream') /\ stream'.met # "search") =>
                stream'.documents
                    = retrieve(Store, stream.question, NoK, threshold, FALSE).documents
           /\ (stream.pos = "streaming" /\ Pulled(stream')) =>
                /\ stream'.search_calls = stream.search_calls
                /\ stream'.documents = stream.documents ]_vars

\* a generator pulled after an ingest into an empty index, streaming an answer
\* from the chunks of that ingest
C28_Witness ==
    /\ last.op = "ingest" /\ last.outcome = "ok" /\ last.pre_count = 0
    /\ stream.pos = "streaming"
    /\ stream.documents # <<>> /\ stream.llm_calls # <<>>
    /\ Range(stream.documents) \subseteq Range(collection)

\* C27: when reset() runs at the same time as similarity_search() or
\* add_documents() on one VectorStore, the search or write either completes on
\* a materialized collection or fails with a backend error: it never uses the
\* handle while the handle is None.
C27_ConcurrentCallNeverUsesNone ==
    threads.call_pc = "done" =>
        \/ threads.outcome = "ok"
        \/ (threads.outcome = "raise" /\ threads.error = BackendError)

====
